---------------------------- MODULE Spec2Model ----------------------------
(***************************************************************************)
(* A model of the collation tools of the Ephesians thesis supplement:      *)
(* the siglum resolver (parse_wit / get_base_wit), the positive-apparatus  *)
(* expander, the merge engine and the renumbering tool.                    *)
(*                                                                         *)
(* A Python string is a sequence of one-character strings, so that         *)
(* endswith, slicing, split and join are computed and not assumed.         *)
(***************************************************************************)
EXTENDS Integers, Sequences, FiniteSets, TLC

VARIABLES
    \* siglum resolver (parse_wit of the expander and of the validator)
    wit, table, eBase, eSuf, ePc, vBase, vSuf, vPc,
    \* base_of helpers (get_base_wit / tabulate parse_wit)
    bWit, bCanon, bOut, bPc,
    \* positive-apparatus expander (convert_app)
    xCanon, xSuffixes, xApp0, xApp, xUncited, xStatus, xPc,
    \* merge engine (Collation, merge_variation_units), run twice on one document
    mListWits, mUnits, mOut, mRuns,
    \* renumbering tool (transpose_variant_readings.py)
    tApp0, tSeq, tApp, tWritten, tBack, tPc,
    \* canonical sort of a unit's children (rdg_key), applied twice
    sApp, sOnce, sTwice, sPc,
    \* validator checks (find_ambiguous_attestations, find_unmatched_witness_pairs)
    cTable, cUnit, cAmbiguous, cUnmatched, cPc

resolverVars == <<wit, table, eBase, eSuf, ePc, vBase, vSuf, vPc>>
baseVars == <<bWit, bCanon, bOut, bPc>>
expanderVars == <<xCanon, xSuffixes, xApp0, xApp, xUncited, xStatus, xPc>>
mergeVars == <<mListWits, mUnits, mOut, mRuns>>
transposeVars == <<tApp0, tSeq, tApp, tWritten, tBack, tPc>>
sortVars == <<sApp, sOnce, sTwice, sPc>>
checkVars == <<cTable, cUnit, cAmbiguous, cUnmatched, cPc>>
vars == <<resolverVars, baseVars, expanderVars, mergeVars, transposeVars, sortVars, checkVars>>

(***************************************************************************)
(* Bounds of the model.                                                    *)
(***************************************************************************)
MaxWitLen == 3
MaxTable == 2
MaxCanon == 2
MaxCites == 3
MaxMergeCites == 2
MaxSeqLen == 4
MaxChildren == 4
MaxUnitCites == 3

(***************************************************************************)
(* Each tool is a program of its own: a specification runs one of them and *)
(* leaves the state of the others idle.                                    *)
(***************************************************************************)
BaseIdle ==
    /\ bWit = <<>>
    /\ bCanon = {}
    /\ bOut = [merge |-> <<>>, tabulate |-> <<>>, support |-> <<>>]
    /\ bPc = "idle"

ResolverIdle ==
    /\ wit = <<>>
    /\ table = <<>>
    /\ eBase = <<>>
    /\ eSuf = <<>>
    /\ ePc = "idle"
    /\ vBase = <<>>
    /\ vSuf = <<>>
    /\ vPc = "idle"

ExpanderIdle ==
    /\ xCanon = <<>>
    /\ xSuffixes = <<>>
    /\ xApp0 = <<>>
    /\ xApp = <<>>
    /\ xUncited = <<>>
    /\ xStatus = <<>>
    /\ xPc = "idle"

NoOutput == [status |-> "none", rdgs |-> <<>>, matrix |-> <<>>]

MergeIdle ==
    /\ mListWits = <<>>
    /\ mUnits = <<>>
    /\ mOut = <<NoOutput, NoOutput>>
    /\ mRuns = 0

TransposeIdle ==
    /\ tApp0 = <<>>
    /\ tSeq = <<>>
    /\ tApp = <<>>
    /\ tWritten = FALSE
    /\ tBack = FALSE
    /\ tPc = "idle"

SortIdle ==
    /\ sApp = <<>>
    /\ sOnce = <<>>
    /\ sTwice = <<>>
    /\ sPc = "idle"

CheckIdle ==
    /\ cTable = <<>>
    /\ cUnit = <<>>
    /\ cAmbiguous = {}
    /\ cUnmatched = {}
    /\ cPc = "idle"

(***************************************************************************)
(* Strings.                                                                *)
(***************************************************************************)
SeqsUpTo(S, n) == UNION {[1..k -> S] : k \in 0..n}

RECURSIVE Concat(_)
Concat(ss) == IF ss = <<>> THEN <<>> ELSE Head(ss) \o Concat(Tail(ss))

\* str.endswith(suffix)
EndsWith(s, suf) ==
    /\ Len(suf) <= Len(s)
    /\ SubSeq(s, Len(s) - Len(suf) + 1, Len(s)) = suf

\* s[:-n] for 0 <= n <= len(s); s[:-0] is s[:0], the empty string
StripEnd(s, n) == IF n = 0 THEN <<>> ELSE SubSeq(s, 1, Len(s) - n)

\* the first element of list that s ends with (0: none): "for x in list: if s.endswith(x): ... break"
FirstMatch(s, list) ==
    IF \E i \in 1..Len(list) : EndsWith(s, list[i])
    THEN CHOOSE i \in 1..Len(list) :
            /\ EndsWith(s, list[i])
            /\ \A j \in 1..(i - 1) : ~EndsWith(s, list[j])
    ELSE 0

(***************************************************************************)
(* The suffix table: entries (suffix, role) in role order; role 1..5 is    *)
(* first hand, main text, corrector, alternate, multiple attestation.      *)
(***************************************************************************)
Roles == 1..5
ResolverChars == {"1", "C"}
ResolverSuffixes == {<<>>, <<"1">>, <<"C">>, <<"C", "1">>}
ResolverWits == SeqsUpTo(ResolverChars, MaxWitLen)
TableEntries == [s : ResolverSuffixes, r : Roles]
Tables ==
    {t \in SeqsUpTo(TableEntries, MaxTable) :
        \A i \in 1..Len(t) : \A j \in 1..Len(t) : i < j => t[i].r <= t[j].r}

\* the suffixes of one role, in their order
RECURSIVE RoleList(_, _)
RoleList(t, r) ==
    IF t = <<>> THEN <<>>
    ELSE IF Head(t).r = r THEN <<Head(t).s>> \o RoleList(Tail(t), r)
         ELSE RoleList(Tail(t), r)

\* the expander's single list: every suffix, in the order given
AllSuffixes(t) == [i \in 1..Len(t) |-> t[i].s]

(***************************************************************************)
(* parse_wit of negative_to_positive_apparatus.py, one loop iteration.     *)
(***************************************************************************)
PushSuffixAtEnd(suffix, stack) == stack \o <<suffix>>

PushSuffix(suffix, stack) == <<suffix>> \o stack

ExpanderStep ==
    /\ ePc = "loop"
    /\ Len(eSuf) <= MaxWitLen
    /\ LET list == AllSuffixes(table)
           i == FirstMatch(eBase, list)
       IN  IF i = 0
           THEN /\ ePc' = "done"
                /\ UNCHANGED <<eBase, eSuf>>
           ELSE /\ eBase' = StripEnd(eBase, Len(list[i]))
                /\ eSuf' = PushSuffix(list[i], eSuf)
                /\ UNCHANGED ePc
    /\ UNCHANGED <<wit, table, vBase, vSuf, vPc, baseVars, expanderVars, mergeVars, transposeVars, sortVars, checkVars>>

(***************************************************************************)
(* parse_wit of validate_collation.py, one loop iteration: the five role   *)
(* loops run one after the other, each overwriting suffix with its own     *)
(* first match.                                                            *)
(***************************************************************************)
RoleMatch(s, t, r, prev) ==
    LET list == RoleList(t, r)
        i == FirstMatch(s, list)
    IN  IF i = 0 THEN prev ELSE list[i]

ValidatorSuffix(s, t) ==
    RoleMatch(s, t, 5, RoleMatch(s, t, 4, RoleMatch(s, t, 3,
        RoleMatch(s, t, 2, RoleMatch(s, t, 1, <<>>)))))

ValidatorStep ==
    /\ vPc = "loop"
    /\ LET suffix == ValidatorSuffix(vBase, table)
       IN  IF Len(suffix) = 0
           THEN /\ vPc' = "done"
                /\ UNCHANGED <<vBase, vSuf>>
           ELSE /\ vBase' = StripEnd(vBase, Len(suffix))
                /\ vSuf' = PushSuffix(suffix, vSuf)
                /\ UNCHANGED vPc
    /\ UNCHANGED <<wit, table, eBase, eSuf, ePc, baseVars, expanderVars, mergeVars, transposeVars, sortVars, checkVars>>

ResolverInit ==
    /\ wit \in ResolverWits
    /\ table \in Tables
    /\ eBase = wit
    /\ eSuf = <<>>
    /\ ePc = "loop"
    /\ vBase = wit
    /\ vSuf = <<>>
    /\ vPc = "loop"
    /\ BaseIdle
    /\ ExpanderIdle
    /\ MergeIdle
    /\ TransposeIdle
    /\ SortIdle
    /\ CheckIdle

ResolverNext == ExpanderStep \/ ValidatorStep

SpecResolver == ResolverInit /\ [][ResolverNext]_vars

(***************************************************************************)
(* C1: the pair returned by parse_wit, in the expander and in the          *)
(* validator, re-concatenates to the citation: base + the suffixes of the  *)
(* stack, in order, is the input string.                                   *)
(***************************************************************************)
C1_Reconcatenation ==
    /\ ePc = "done" => eBase \o Concat(eSuf) = wit
    /\ vPc = "done" => vBase \o Concat(vSuf) = wit

\* both parsers have returned a stack of two different suffixes
C1_Witness ==
    /\ ePc = "done"
    /\ vPc = "done"
    /\ Len(eSuf) = 2
    /\ eSuf[1] # eSuf[2]
    /\ Len(vSuf) = 2
    /\ vSuf[1] # vSuf[2]

(***************************************************************************)
(* base_of: strip the last character until a canonical witness is reached. *)
(* The three variants differ in what they return when none is reached.     *)
(***************************************************************************)
\* a variant that strips before it looks
RECURSIVE StripThenLook(_, _)
StripThenLook(w, canon) ==
    IF Len(w) > 0
    THEN IF StripEnd(w, 1) \in canon THEN StripEnd(w, 1)
         ELSE StripThenLook(StripEnd(w, 1), canon)
    ELSE w

\* Collation.get_base_wit: returns the (empty) remainder when nothing matches
RECURSIVE MergeGetBaseWit(_, _)
MergeGetBaseWit(w, canon) ==
    IF Len(w) > 0
    THEN IF w \in canon THEN w ELSE MergeGetBaseWit(StripEnd(w, 1), canon)
    ELSE w

\* the while loop of tabulate_extant_readings.parse_wit
RECURSIVE TabulateLoop(_, _)
TabulateLoop(w, canon) ==
    IF Len(w) > 0 /\ w \notin canon
    THEN TabulateLoop(StripEnd(w, 1), canon)
    ELSE w

\* tabulate_extant_readings.parse_wit: resets to the input when nothing matches
TabulateParseWit(w, canon) ==
    LET b == TabulateLoop(w, canon)
    IN  IF Len(b) = 0 THEN w ELSE b

\* the loop of get_reading_support.get_base_wit, returning orig when it runs out
RECURSIVE SupportLoop(_, _, _)
SupportLoop(b, orig, canon) ==
    IF Len(b) > 0
    THEN IF b \in canon THEN b ELSE SupportLoop(StripEnd(b, 1), orig, canon)
    ELSE orig

SupportGetBaseWit(w, canon) == SupportLoop(w, w, canon)

BaseChars == {"1", "C"}
BaseCanonLists == {c \in SUBSET SeqsUpTo(BaseChars, 2) : Cardinality(c) <= MaxCanon}

BaseOf ==
    /\ bPc = "call"
    /\ bOut' = [merge |-> MergeGetBaseWit(bWit, bCanon),
                tabulate |-> TabulateParseWit(bWit, bCanon),
                support |-> SupportGetBaseWit(bWit, bCanon)]
    /\ bPc' = "done"
    /\ UNCHANGED <<bWit, bCanon, resolverVars, expanderVars, mergeVars, transposeVars, sortVars, checkVars>>

BaseInit ==
    /\ bWit \in SeqsUpTo(BaseChars, MaxWitLen)
    /\ bCanon \in BaseCanonLists
    /\ bOut = [merge |-> <<>>, tabulate |-> <<>>, support |-> <<>>]
    /\ bPc = "call"
    /\ ResolverIdle
    /\ ExpanderIdle
    /\ MergeIdle
    /\ TransposeIdle
    /\ SortIdle
    /\ CheckIdle

BaseNext == BaseOf

SpecBaseOf == BaseInit /\ [][BaseNext]_vars

(***************************************************************************)
(* C2: base_of applied to a member of the canonical witness list returns   *)
(* that member unchanged, in each of the three variants of the helper.     *)
(***************************************************************************)
C2_FixedPoint ==
    (bPc = "done" /\ bWit \in bCanon) =>
        /\ bOut.merge = bWit
        /\ bOut.tabulate = bWit
        /\ bOut.support = bWit

\* a canonical witness one of whose proper prefixes is canonical too
C2_Witness ==
    /\ bPc = "done"
    /\ bWit \in bCanon
    /\ Len(bWit) = 2
    /\ StripEnd(bWit, 1) \in bCanon
    /\ bOut.merge = bWit


(***************************************************************************)
(* Lists, dictionaries and sorted().                                       *)
(***************************************************************************)
Range(f) == {f[i] : i \in DOMAIN f}

\* dict[key] of a dictionary built by "for i, x in enumerate(list): d[x] = i"
IndexIn(list, x) == CHOOSE i \in 1..Len(list) :
    /\ list[i] = x
    /\ \A j \in (i + 1)..Len(list) : list[j] # x

\* the order of Python tuples (and lists) of integers
TupleLess(a, b) ==
    \/ \E k \in 1..Len(a) :
        /\ k <= Len(b)
        /\ a[k] < b[k]
        /\ \A j \in 1..(k - 1) : a[j] = b[j]
    \/ /\ Len(a) < Len(b)
       /\ \A j \in 1..Len(a) : a[j] = b[j]

\* sorted(list, key=...): stable, keys[i] being the key of list[i]
SortedByKeys(list, keys) ==
    LET before(j, i) == TupleLess(keys[j], keys[i]) \/ (keys[j] = keys[i] /\ j < i)
        rank(i) == 1 + Cardinality({j \in 1..Len(list) : before(j, i)})
    IN  [k \in 1..Len(list) |-> list[CHOOSE i \in 1..Len(list) : rank(i) = k]]

(***************************************************************************)
(* The wit attribute: tokens separated by a blank. "rell" is one symbol    *)
(* of the string, so that str.replace finds it inside a token too.         *)
(***************************************************************************)
RELL == "rell"
SP == " "

\* ' '.join(tokens)
RECURSIVE JoinSp(_)
JoinSp(tokens) ==
    IF tokens = <<>> THEN <<>>
    ELSE IF Len(tokens) = 1 THEN tokens[1]
    ELSE tokens[1] \o <<SP>> \o JoinSp(Tail(tokens))

\* str.split(): the maximal runs of non-blank characters
RECURSIVE SplitWs(_, _)
SplitWs(str, cur) ==
    IF str = <<>> THEN (IF cur = <<>> THEN <<>> ELSE <<cur>>)
    ELSE IF Head(str) = SP
         THEN (IF cur = <<>> THEN <<>> ELSE <<cur>>) \o SplitWs(Tail(str), <<>>)
         ELSE SplitWs(Tail(str), cur \o <<Head(str)>>)

\* str.replace("rell", rep)
RECURSIVE ReplaceRell(_, _)
ReplaceRell(str, rep) ==
    IF str = <<>> THEN <<>>
    ELSE (IF Head(str) = RELL THEN rep ELSE <<Head(str)>>) \o ReplaceRell(Tail(str), rep)

\* witness_pattern.match(w): ^[LP]*\d+S*
Digits == {"0", "1", "2", "3", "4", "5", "6", "7", "8", "9"}
WitnessPattern(w) ==
    \E k \in 1..Len(w) :
        /\ w[k] \in Digits
        /\ \A j \in 1..(k - 1) : w[j] \in {"L", "P"}

\* parse_wit of the expander, run to its end; it does not return once the
\* empty suffix is the one that matches
RECURSIVE ExpanderParse(_, _, _)
ExpanderParse(base, stack, list) ==
    LET i == FirstMatch(base, list)
    IN  IF i = 0 THEN [base |-> base, stack |-> stack, returns |-> TRUE]
        ELSE IF Len(list[i]) = 0 THEN [base |-> <<>>, stack |-> stack, returns |-> FALSE]
        ELSE ExpanderParse(StripEnd(base, Len(list[i])), PushSuffix(list[i], stack), list)

\* the keys of a dictionary built from a list, in insertion order
RECURSIVE DictKeys(_)
DictKeys(list) ==
    IF list = <<>> THEN <<>>
    ELSE LET front == DictKeys(SubSeq(list, 1, Len(list) - 1))
             x == list[Len(list)]
         IN  IF x \in Range(front) THEN front ELSE front \o <<x>>

(***************************************************************************)
(* get_sorted_wits: the key of one citation, or the way it fails.          *)
(***************************************************************************)
WitKey(w, canon, suffixes) ==
    IF WitnessPattern(w)
    THEN LET p == ExpanderParse(w, <<>>, DictKeys(suffixes))
         IN  IF ~p.returns THEN [outcome |-> "hang", key |-> <<>>]
             ELSE IF p.base \notin Range(canon) THEN [outcome |-> "error", key |-> <<>>]
             ELSE [outcome |-> "ok",
                   key |-> <<IndexIn(canon, p.base)>> \o
                           [k \in 1..Len(p.stack) |-> IndexIn(suffixes, p.stack[k])]]
    ELSE IF w \notin Range(canon) THEN [outcome |-> "error", key |-> <<>>]
         ELSE [outcome |-> "ok", key |-> <<IndexIn(canon, w)>>]

\* what get_sorted_wits does with a list: "sorted", or the first failure
SortOutcome(wits, canon, suffixes) ==
    LET ks == [i \in 1..Len(wits) |-> WitKey(wits[i], canon, suffixes)]
        bad == {i \in 1..Len(wits) : ks[i].outcome # "ok"}
    IN  IF bad = {} THEN "sorted"
        ELSE ks[CHOOSE i \in bad : \A j \in bad : i <= j].outcome

GetSortedWits(wits, canon, suffixes) ==
    SortedByKeys(wits, [i \in 1..Len(wits) |-> WitKey(wits[i], canon, suffixes).key])

(***************************************************************************)
(* convert_app.                                                            *)
(***************************************************************************)
\* every citation of the unit, reading after reading
RECURSIVE Citations(_)
Citations(app) == IF app = <<>> THEN <<>> ELSE Head(app).wit \o Citations(Tail(app))

\* the first loop: what one citation adds to base_wits_cited
CitedBase(w, suffixes) ==
    IF WitnessPattern(w) THEN ExpanderParse(w, <<>>, DictKeys(suffixes)).base ELSE w

BaseWitsCited(app, suffixes) ==
    {CitedBase(w, suffixes) : w \in {c \in Range(Citations(app)) : c # <<RELL>>}}

FirstLoopReturns(app, suffixes) ==
    \A w \in Range(Citations(app)) :
        (w # <<RELL>> /\ WitnessPattern(w)) =>
            ExpanderParse(w, <<>>, DictKeys(suffixes)).returns

UncitedWits(app, canon, suffixes) ==
    LET cited == BaseWitsCited(app, suffixes)
        Uncited(w) == w \notin cited
    IN  SelectSeq(DictKeys(canon), Uncited)

\* the second loop, for one reading: replace, then try to sort
Replaced(rdg, uncited) == SplitWs(ReplaceRell(JoinSp(rdg.wit), JoinSp(uncited)), <<>>)

ConvertReading(rdg, uncited, canon, suffixes) ==
    LET wits == Replaced(rdg, uncited)
    IN  IF SortOutcome(wits, canon, suffixes) = "sorted"
        THEN [rdg EXCEPT !.wit = GetSortedWits(wits, canon, suffixes)]
        ELSE [rdg EXCEPT !.wit = wits]

ConvertApp ==
    /\ xPc = "call"
    /\ IF ~FirstLoopReturns(xApp, xSuffixes)
       THEN /\ xPc' = "hang"
            /\ UNCHANGED <<xApp, xUncited, xStatus>>
       ELSE LET uncited == UncitedWits(xApp, xCanon, xSuffixes)
                status == [i \in 1..Len(xApp) |->
                              SortOutcome(Replaced(xApp[i], uncited), xCanon, xSuffixes)]
                hangs == {i \in 1..Len(xApp) : status[i] = "hang"}
                last == IF hangs = {} THEN Len(xApp)
                        ELSE CHOOSE i \in hangs : \A j \in hangs : i <= j
            IN  /\ xUncited' = uncited
                /\ xApp' = [i \in 1..Len(xApp) |->
                              IF i <= last
                              THEN ConvertReading(xApp[i], uncited, xCanon, xSuffixes)
                              ELSE xApp[i]]
                /\ xStatus' = [i \in 1..Len(xApp) |-> IF i <= last THEN status[i] ELSE "none"]
                /\ xPc' = IF hangs = {} THEN "done" ELSE "hang"
    /\ UNCHANGED <<xCanon, xSuffixes, xApp0, resolverVars, baseVars, mergeVars, transposeVars, sortVars, checkVars>>

\* the inputs: a unit of two readings, with MaxCites citations at most
ExpanderTokens ==
    {<<"1">>, <<"2">>, <<"1", "C">>, <<"1", "*", "C">>, <<RELL>>, <<RELL, "C">>}
ExpanderCanonLists == {<<<<"1">>, <<"2">>>>, <<<<"v">>, <<"2">>, <<"1">>>>}
ExpanderSuffixLists ==
    {<<>>, <<<<"C">>>>, <<<<"*">>, <<"C">>>>, <<<<"C">>, <<"*">>>>, <<<<>>>>}
ExpanderReadings == {"1", "2"}
ExpanderPlacements ==
    {p \in SeqsUpTo([rdg : 1..2, w : ExpanderTokens], MaxCites) :
        \A i \in 1..Len(p) : \A j \in 1..Len(p) : i < j => p[i].rdg <= p[j].rdg}

RECURSIVE WitsOf(_, _)
WitsOf(p, r) ==
    IF p = <<>> THEN <<>>
    ELSE (IF Head(p).rdg = r THEN <<Head(p).w>> ELSE <<>>) \o WitsOf(Tail(p), r)

UnitOf(p) == [r \in 1..2 |-> [n |-> r, wit |-> WitsOf(p, r)]]

ExpanderInit ==
    /\ xCanon \in ExpanderCanonLists
    /\ xSuffixes \in ExpanderSuffixLists
    /\ \E p \in ExpanderPlacements : xApp0 = UnitOf(p)
    /\ xApp = xApp0
    /\ xUncited = <<>>
    /\ xStatus = <<>>
    /\ xPc = "call"
    /\ ResolverIdle
    /\ BaseIdle
    /\ MergeIdle
    /\ TransposeIdle
    /\ SortIdle
    /\ CheckIdle

ExpanderNext == ConvertApp

SpecExpander == ExpanderInit /\ [][ExpanderNext]_vars

(***************************************************************************)
(* C3: the witnesses substituted for "rell" and the canonical base         *)
(* witnesses the unit cites, directly or through a suffixed subwitness     *)
(* (base_of), are disjoint, and together they are the canonical list.      *)
(***************************************************************************)
BasesCitedInUnit(app, canon) ==
    {b \in Range(canon) :
        \E c \in Range(Citations(app)) :
            c # <<RELL>> /\ TabulateParseWit(c, Range(canon)) = b}

C3_RellPartition ==
    xPc = "done" =>
        /\ Range(xUncited) \cap BasesCitedInUnit(xApp0, xCanon) = {}
        /\ Range(xUncited) \cup BasesCitedInUnit(xApp0, xCanon) = Range(xCanon)

(***************************************************************************)
(* The merge engine.  A document holds its listWit elements and the units  *)
(* to merge, in document order; a unit is its readings and witDetails,     *)
(* each with its id and its citations, and the listWit (lw) of the part of *)
(* the document the unit stands in.                                        *)
(***************************************************************************)
LAC_SYMBOL == <<"Z">>
COMMA == ","

\* "a in b" for strings: a occurs in b
IsSubstring(a, b) ==
    \E i \in 1..(Len(b) - Len(a) + 1) : SubSeq(b, i, i + Len(a) - 1) = a

\* ",".join(ids)
RECURSIVE JoinComma(_)
JoinComma(ids) ==
    IF ids = <<>> THEN <<>>
    ELSE IF Len(ids) = 1 THEN ids[1]
    ELSE ids[1] \o <<COMMA>> \o JoinComma(Tail(ids))

\* str.split(","): the fields between the commas, empty ones kept
RECURSIVE SplitComma(_, _)
SplitComma(str, cur) ==
    IF str = <<>> THEN <<cur>>
    ELSE IF Head(str) = COMMA THEN <<cur>> \o SplitComma(Tail(str), <<>>)
    ELSE SplitComma(Tail(str), cur \o <<Head(str)>>)

\* parse_list_wit: the witnesses of the first listWit of the document
Witnesses(listWits) == listWits[1]

\* every (unit, reading id, citation) in the order the three nested loops meet them
RECURSIVE RdgCites(_, _, _)
RdgCites(u, id, wits) ==
    IF wits = <<>> THEN <<>>
    ELSE <<[u |-> u, id |-> id, w |-> Head(wits)]>> \o RdgCites(u, id, Tail(wits))

RECURSIVE UnitCites(_, _)
UnitCites(u, rdgs) ==
    IF rdgs = <<>> THEN <<>>
    ELSE RdgCites(u, Head(rdgs).id, Head(rdgs).wit) \o UnitCites(u, Tail(rdgs))

RECURSIVE DocCites(_, _)
DocCites(units, u) ==
    IF u > Len(units) THEN <<>>
    ELSE UnitCites(u, units[u].rdgs) \o DocCites(units, u + 1)

\* iteration over a Python set of strings: its members in the order the
\* interpreter's string hashing gives them in this execution
RECURSIVE InOrder(_, _)
InOrder(set, ord) ==
    IF ord = <<>> THEN <<>>
    ELSE (IF Head(ord) \in set THEN <<Head(ord)>> ELSE <<>>) \o InOrder(set, Tail(ord))

(***************************************************************************)
(* Lines 150-176: sigla_by_base_witness.                                   *)
(***************************************************************************)
RegisterOne(reg, w, canon, ord) ==
    LET base == MergeGetBaseWit(w, canon)
    IN  IF w = base THEN reg
        ELSE IF base \notin canon THEN [reg EXCEPT !.err = TRUE]
        ELSE IF \E siglum \in reg.sig[base] : IsSubstring(w, siglum) /\ siglum # w
             THEN reg
        ELSE LET inside == {siglum \in reg.sig[base] : IsSubstring(siglum, w) /\ siglum # w}
                 kept == IF inside = {} THEN reg.sig[base]
                         ELSE reg.sig[base] \ {InOrder(inside, ord)[1]}
             IN  [reg EXCEPT !.sig[base] = kept \cup {w}]

RECURSIVE Register(_, _, _, _)
Register(reg, cites, canon, ord) ==
    IF cites = <<>> \/ reg.err THEN reg
    ELSE Register(RegisterOne(reg, Head(cites).w, canon, ord), Tail(cites), canon, ord)

SiglaByBaseWitness(units, witnesses, ord) ==
    Register([err |-> FALSE, sig |-> [b \in Range(witnesses) |-> {}]],
             DocCites(units, 1), Range(witnesses), ord)

(***************************************************************************)
(* Lines 177-187: the keys of reading_lists_by_siglum, in insertion order. *)
(***************************************************************************)
RECURSIVE MatrixKeys(_, _, _)
MatrixKeys(witnesses, sig, ord) ==
    IF witnesses = <<>> THEN <<>>
    ELSE (IF sig[Head(witnesses)] = {} THEN <<Head(witnesses)>>
          ELSE InOrder(sig[Head(witnesses)], ord))
         \o MatrixKeys(Tail(witnesses), sig, ord)

(***************************************************************************)
(* Lines 188-210: reading_lists_by_siglum.                                 *)
(***************************************************************************)
PopulateOne(m, c, sig, canon) ==
    IF c.w \in DOMAIN m
    THEN [m EXCEPT ![c.w][c.u] = c.id]
    ELSE LET base == MergeGetBaseWit(c.w, canon)
         IN  [k \in DOMAIN m |->
                IF k \in sig[base] /\ IsSubstring(c.w, k)
                THEN [m[k] EXCEPT ![c.u] = c.id]
                ELSE m[k]]

RECURSIVE Populate(_, _, _, _)
Populate(m, cites, sig, canon) ==
    IF cites = <<>> THEN m
    ELSE Populate(PopulateOne(m, Head(cites), sig, canon), Tail(cites), sig, canon)

ReadingListsBySiglum(units, keys, sig, canon) ==
    Populate([k \in Range(keys) |-> [u \in 1..Len(units) |-> LAC_SYMBOL]],
             DocCites(units, 1), sig, canon)

(***************************************************************************)
(* Lines 211-222: wits_by_reading_sequence.                                *)
(***************************************************************************)
\* rdg_sequence
SequenceOf(ids) == JoinComma(ids)

\* a variant that opens an entry for every witness key
RdgSequencesRepeated(keys, m) == [i \in 1..Len(keys) |-> SequenceOf(m[keys[i]])]

\* the dictionary's keys, in insertion order
RdgSequences(keys, m) == DictKeys([i \in 1..Len(keys) |-> SequenceOf(m[keys[i]])])

\* a variant that compares the sequences at their first unit only
WitsByFirstUnit(seq, keys, m, witnesses) ==
    LET Here(k) == m[k][1] = SplitComma(seq, <<>>)[1]
        group == SelectSeq(keys, Here)
    IN  SortedByKeys(group,
            [i \in 1..Len(group) |->
                <<IndexIn(witnesses, MergeGetBaseWit(group[i], Range(witnesses)))>>])

\* one entry, after its sort by the index of the base witness
WitsBySequence(seq, keys, m, witnesses) ==
    LET Here(k) == SequenceOf(m[k]) = seq
        group == SelectSeq(keys, Here)
    IN  SortedByKeys(group,
            [i \in 1..Len(group) |->
                <<IndexIn(witnesses, MergeGetBaseWit(group[i], Range(witnesses)))>>])

(***************************************************************************)
(* parse_apps, lines 116-128: reading_to_index_maps.                       *)
(***************************************************************************)
RdgIds(unit) == [k \in 1..Len(unit.rdgs) |-> unit.rdgs[k].id]

ReadingToIndexMap(unit) ==
    LET ids == RdgIds(unit)
        named == [id \in Range(ids) |-> IndexIn(ids, id) - 1]
    IN  IF LAC_SYMBOL \in Range(ids) THEN named
        ELSE [id \in Range(ids) \cup {LAC_SYMBOL} |->
                IF id = LAC_SYMBOL THEN Cardinality(Range(ids)) ELSE named[id]]

(***************************************************************************)
(* Line 244: the sort of the reading sequences.                            *)
(***************************************************************************)
\* the key of a sequence raises IndexError or KeyError
SequenceKeyRaises(seq, units) ==
    LET ids == SplitComma(seq, <<>>)
    IN  \E j \in 1..Len(ids) :
            \/ j > Len(units)
            \/ ids[j] \notin DOMAIN ReadingToIndexMap(units[j])

SequenceKey(seq, units) ==
    LET ids == SplitComma(seq, <<>>)
    IN  [j \in 1..Len(ids) |-> ReadingToIndexMap(units[j])[ids[j]]]

(***************************************************************************)
(* Lines 246-297: the merged reading of one sequence.                      *)
(***************************************************************************)
\* a variant that gives no segment to a sentinel entry
SegmentsOfReadings(seq, units) ==
    LET ids == SplitComma(seq, <<>>)
        all == [i \in 1..Len(ids) |->
                  [unit |-> i, rdg |-> ids[i],
                   synthesized |-> ids[i] \notin Range(RdgIds(units[i]))]]
    IN  SelectSeq(all, LAMBDA g : g.rdg # LAC_SYMBOL)

Segments(seq, units) ==
    LET ids == SplitComma(seq, <<>>)
    IN  [i \in 1..Len(ids) |->
            [unit |-> i, rdg |-> ids[i],
             synthesized |-> ids[i] \notin Range(RdgIds(units[i]))]]

MergedRdg(seq, keys, m, witnesses, units) ==
    [n |-> seq, wit |-> WitsBySequence(seq, keys, m, witnesses), segs |-> Segments(seq, units)]

(***************************************************************************)
(* Collation(xml, ids).merge_variation_units(), in an execution whose set  *)
(* iteration order is ord.                                                 *)
(***************************************************************************)
MergeFailed == [status |-> "error", rdgs |-> <<>>, matrix |-> <<>>]

MergeVariationUnits(listWits, units, ord) ==
    LET witnesses == Witnesses(listWits)
        canon == Range(witnesses)
        reg == SiglaByBaseWitness(units, witnesses, ord)
    IN  IF reg.err THEN MergeFailed
        ELSE LET keys == MatrixKeys(witnesses, reg.sig, ord)
                 m == ReadingListsBySiglum(units, keys, reg.sig, canon)
                 seqs == RdgSequences(keys, m)
             IN  IF \E i \in 1..Len(seqs) : SequenceKeyRaises(seqs[i], units)
                 THEN MergeFailed
                 ELSE LET sorted == SortedByKeys(seqs,
                                        [i \in 1..Len(seqs) |-> SequenceKey(seqs[i], units)])
                      IN  [status |-> "ok",
                           rdgs |-> [i \in 1..Len(sorted) |->
                                        MergedRdg(sorted[i], keys, m, witnesses, units)],
                           matrix |-> m]

\* the suffixed sigla the units cite: the members the sets can have
CitedSigla(listWits, units) ==
    LET canon == Range(Witnesses(listWits))
        cites == DocCites(units, 1)
    IN  {cites[i].w : i \in {j \in 1..Len(cites) :
            /\ cites[j].w \notin canon
            /\ MergeGetBaseWit(cites[j].w, canon) \in canon}}

Orders(S) ==
    {p \in [1..Cardinality(S) -> S] : \A i, j \in 1..Cardinality(S) : i # j => p[i] # p[j]}

Merge ==
    /\ mRuns < 2
    /\ mListWits # <<>>
    /\ \E ord \in Orders(CitedSigla(mListWits, mUnits)) :
          mOut' = [mOut EXCEPT ![mRuns + 1] = MergeVariationUnits(mListWits, mUnits, ord)]
    /\ mRuns' = mRuns + 1
    /\ UNCHANGED <<mListWits, mUnits, resolverVars, baseVars, expanderVars, transposeVars, sortVars, checkVars>>

\* the inputs
MergeTokens == {<<"1">>, <<"2">>, <<"1", "C">>, <<"1", "*">>, <<"1", "1", "C">>, <<"X">>}
MergeListWit == <<<<"1">>, <<"2">>>>
OtherListWit == <<<<"1">>, <<"3">>>>
MergeShapes ==
    {[listWits |-> <<MergeListWit>>, lw |-> <<1, 1>>,
      ids |-> <<<<<<"1">>, <<"2">>>>, <<<<"1">>, <<"2">>>>>>],
     [listWits |-> <<MergeListWit>>, lw |-> <<1, 1>>,
      ids |-> <<<<<<"2">>, <<"Z">>>>, <<<<"2">>, <<"1">>>>>>],
     [listWits |-> <<MergeListWit>>, lw |-> <<1, 1>>,
      ids |-> <<<<<<"1">>, <<"1">>>>, <<<<"1", COMMA, "2">>, <<"2">>>>>>],
     [listWits |-> <<MergeListWit, OtherListWit>>, lw |-> <<1, 2>>,
      ids |-> <<<<<<"1">>, <<"2">>>>, <<<<"1">>, <<"2">>>>>>]}
MergePlacements ==
    {p \in SeqsUpTo([u : 1..2, r : 1..2, w : MergeTokens], MaxMergeCites) :
        \A i \in 1..Len(p) : \A j \in 1..Len(p) :
            i < j => (p[i].u < p[j].u \/ (p[i].u = p[j].u /\ p[i].r <= p[j].r))}

RECURSIVE PlacedWits(_, _, _)
PlacedWits(p, u, r) ==
    IF p = <<>> THEN <<>>
    ELSE (IF Head(p).u = u /\ Head(p).r = r THEN <<Head(p).w>> ELSE <<>>)
         \o PlacedWits(Tail(p), u, r)

DocUnits(shape, p) ==
    [u \in 1..2 |->
        [lw |-> shape.lw[u],
         rdgs |-> [r \in 1..2 |-> [id |-> shape.ids[u][r], wit |-> PlacedWits(p, u, r)]]]]

MergeInit ==
    /\ \E shape \in MergeShapes : \E p \in MergePlacements :
          /\ mListWits = shape.listWits
          /\ mUnits = DocUnits(shape, p)
    /\ mOut = <<NoOutput, NoOutput>>
    /\ mRuns = 0
    /\ ResolverIdle
    /\ BaseIdle
    /\ ExpanderIdle
    /\ TransposeIdle
    /\ SortIdle
    /\ CheckIdle

MergeNext == Merge

SpecMerge == MergeInit /\ [][MergeNext]_vars

\* the places of the merged unit where witness key k is cited
CitedAt(out, k) ==
    UNION {{<<i, j>> : j \in {x \in 1..Len(out.rdgs[i].wit) : out.rdgs[i].wit[x] = k}} :
             i \in 1..Len(out.rdgs)}

CitedTogether(out, k1, k2) ==
    \E i \in 1..Len(out.rdgs) :
        k1 \in Range(out.rdgs[i].wit) /\ k2 \in Range(out.rdgs[i].wit)

(***************************************************************************)
(* C4: in the merged unit every witness key of the attestation matrix is   *)
(* in the witness list of exactly one merged reading, exactly once.        *)
(***************************************************************************)
C4_Partition ==
    \A r \in 1..2 :
        mOut[r].status = "ok" =>
            \A k \in DOMAIN mOut[r].matrix : Cardinality(CitedAt(mOut[r], k)) = 1

\* a merged unit with two readings, one of them citing two subwitness keys
C4_Witness ==
    /\ mOut[1].status = "ok"
    /\ Len(mOut[1].rdgs) = 2
    /\ \E i \in 1..2 :
          /\ Len(mOut[1].rdgs[i].wit) = 2
          /\ \A j \in 1..2 : mOut[1].rdgs[i].wit[j] \notin Range(Witnesses(mListWits))

(***************************************************************************)
(* C5: two witness keys are cited by the same merged reading exactly when  *)
(* their reading-id sequences are equal at every unit; a canonical witness *)
(* cited in no unit is in the reading that is the sentinel at every unit.  *)
(***************************************************************************)
CitedNowhere(b) ==
    \A i \in 1..Len(DocCites(mUnits, 1)) :
        MergeGetBaseWit(DocCites(mUnits, 1)[i].w, Range(Witnesses(mListWits))) # b

C5_GroupedBySequence ==
    \A r \in 1..2 :
        mOut[r].status = "ok" =>
            /\ \A k1, k2 \in DOMAIN mOut[r].matrix :
                  CitedTogether(mOut[r], k1, k2) <=>
                      \A u \in 1..Len(mUnits) : mOut[r].matrix[k1][u] = mOut[r].matrix[k2][u]
            /\ \A b \in Range(Witnesses(mListWits)) :
                  CitedNowhere(b) =>
                      \E i \in 1..Len(mOut[r].rdgs) :
                          /\ b \in Range(mOut[r].rdgs[i].wit)
                          /\ \A u \in 1..Len(mUnits) : mOut[r].rdgs[i].segs[u].rdg = LAC_SYMBOL

\* two keys that agree at the first unit and differ at the second, one of a
\* witness that is cited nowhere
C5_Witness ==
    /\ mOut[1].status = "ok"
    /\ \E k1, k2 \in DOMAIN mOut[1].matrix :
          /\ mOut[1].matrix[k1][1] = mOut[1].matrix[k2][1]
          /\ mOut[1].matrix[k1][2] # mOut[1].matrix[k2][2]
          /\ ~CitedTogether(mOut[1], k1, k2)
    /\ \E b \in Range(Witnesses(mListWits)) : CitedNowhere(b)

(***************************************************************************)
(* C6: two executions of the merge on the same document give the same      *)
(* merged unit, the order of the sigla in every witness list included.     *)
(***************************************************************************)
C6_Deterministic ==
    mRuns = 2 =>
        /\ mOut[1].status = mOut[2].status
        /\ mOut[1].rdgs = mOut[2].rdgs

(***************************************************************************)
(* C7: when the units do not all reference the same canonical witness      *)
(* list, the merge fails and produces no merged unit.                      *)
(***************************************************************************)
ListsMismatch ==
    \E u, v \in 1..Len(mUnits) : mListWits[mUnits[u].lw] # mListWits[mUnits[v].lw]

C7_MismatchFails ==
    \A r \in 1..2 :
        (r <= mRuns /\ ListsMismatch) =>
            /\ mOut[r].status = "error"
            /\ mOut[r].rdgs = <<>>

(***************************************************************************)
(* The renumbering tool (transpose_variant_readings.py). A reading number  *)
(* is the integer its decimal string denotes. A reference to a reading is  *)
(* a bare number ("2", form num), a pointer to an identifier               *)
(* ("#B10K1V1U2R2", form ptr), or such a pointer without its "#" (form     *)
(* bare), which only the tool itself produces.                             *)
(***************************************************************************)
Ref(form, n) == [form |-> form, n |-> n]
Num(n) == Ref("num", n)

\* a child of the app element; the fields a tag does not use keep these
\* values (text: the content of a reading, which the tool never touches)
NoChild ==
    [tag |-> "", type |-> "", main |-> 0, f |-> 0, wn |-> <<>>, sub |-> 0,
     target |-> <<>>, certs |-> <<>>, rels |-> <<>>, text |-> 0]

Lem == [NoChild EXCEPT !.tag = "lem"]

\* <rdg n="main"> or <rdg n="main-fN" type="...">
Rdg(main, f, type) == [NoChild EXCEPT !.tag = "rdg", !.main = main, !.f = f, !.type = type]

\* <witDetail type=... n="Wa/b" or "Wa/b-sub" target="..."> with its certainty children's targets
WitDetail(type, wn, sub, target, certs) ==
    [NoChild EXCEPT !.tag = "witDetail", !.type = type, !.wn = wn, !.sub = sub,
                    !.target = target, !.certs = certs]

\* <relation active="..." passive="..."> (byz: ana="#Byz")
Relation(active, passive, byz) == [active |-> active, passive |-> passive, byz |-> byz]

\* <note> with one listRelation
Note(rels) == [NoChild EXCEPT !.tag = "note", !.rels = rels]

\* int() of a reference: a pointer without "#" is not a number
ReadingReferenceKeyRaises(ref) == ref.form = "bare"

ReadingReferenceKey(ref) == ref.n

\* sorted(refs, key=reading_reference_key)
SortRefs(refs) ==
    SortedByKeys(refs, [i \in 1..Len(refs) |-> <<ReadingReferenceKey(refs[i])>>])

\* a variant that leaves the numbers in the order of the old ones
UnsortedNumbers(ns) == ns

\* sorted(numbers, key=reading_reference_key)
SortNumbers(ns) == SortedByKeys(ns, [i \in 1..Len(ns) |-> <<ns[i]>>])

\* "for i, n in enumerate(sequence): transposition_dict[n] = str(i + 1)"
TranspositionDict(seq) == [n \in Range(seq) |-> IndexIn(seq, n)]

ProcessRdgRaises(c, dict) == c.main \notin DOMAIN dict

\* a variant that renumbers the readings without a type only
ProcessSubstantiveRdg(c, dict) == IF c.type = "" THEN [c EXCEPT !.main = dict[c.main]] ELSE c

ProcessRdg(c, dict) == [c EXCEPT !.main = dict[c.main]]

\* a pointer is renumbered and then looked up as a whole in the dictionary
ProcessCertaintyRaises(ref, dict) == ref.form # "num" \/ ref.n \notin DOMAIN dict

ProcessCertainty(ref, dict) == Num(dict[ref.n])

\* the target loop of process_wit_detail: a pointer keeps its "#"
WitDetailTargetRaises(ref, dict) == ref.form = "bare" \/ ref.n \notin DOMAIN dict

WitDetailTarget(ref, dict) == Ref(ref.form, dict[ref.n])

ProcessWitDetailRaises(c, dict) ==
    \/ \E i \in 1..Len(c.wn) : c.wn[i] \notin DOMAIN dict
    \/ \E i \in 1..Len(c.target) : WitDetailTargetRaises(c.target[i], dict)
    \/ \E i \in 1..Len(c.certs) : ProcessCertaintyRaises(c.certs[i], dict)

ProcessWitDetail(c, dict) ==
    [c EXCEPT !.wn = SortNumbers([i \in 1..Len(c.wn) |-> dict[c.wn[i]]]),
              !.target = SortRefs([i \in 1..Len(c.target) |-> WitDetailTarget(c.target[i], dict)]),
              !.certs = SortRefs([i \in 1..Len(c.certs) |-> ProcessCertainty(c.certs[i], dict)])]

\* the target loops of process_relation: a pointer loses its "#"
RelationTargetRaises(ref, dict) == ref.form = "bare" \/ ref.n \notin DOMAIN dict

RelationTarget(ref, dict) ==
    Ref(IF ref.form = "ptr" THEN "bare" ELSE "num", dict[ref.n])

ActiveRaises(active, dict) ==
    \/ \E i \in 1..Len(active) : RelationTargetRaises(active[i], dict)
    \/ \E i \in 1..Len(active) : ReadingReferenceKeyRaises(RelationTarget(active[i], dict))

Active(active, dict) ==
    SortRefs([i \in 1..Len(active) |-> RelationTarget(active[i], dict)])

\* the passive loop: enumerate walks the list that was split from the
\* attribute, writes the renumbered target at position i of the list that
\* passive_targets names at that moment, and sorts that list inside the loop
RECURSIVE PassiveLoopRaises(_, _, _, _)
PassiveLoopRaises(cur, split, i, dict) ==
    IF i > Len(split) THEN FALSE
    ELSE \/ RelationTargetRaises(split[i], dict)
         \/ LET written == [cur EXCEPT ![i] = RelationTarget(split[i], dict)]
            IN  \/ \E j \in 1..Len(written) : ReadingReferenceKeyRaises(written[j])
                \/ PassiveLoopRaises(SortRefs(written), split, i + 1, dict)

RECURSIVE PassiveLoop(_, _, _, _)
PassiveLoop(cur, split, i, dict) ==
    IF i > Len(split) THEN cur
    ELSE PassiveLoop(SortRefs([cur EXCEPT ![i] = RelationTarget(split[i], dict)]),
                     split, i + 1, dict)

ProcessRelationRaises(r, dict) ==
    \/ ActiveRaises(r.active, dict)
    \/ PassiveLoopRaises(r.passive, r.passive, 1, dict)

ProcessRelation(r, dict) ==
    [r EXCEPT !.active = Active(r.active, dict),
              !.passive = PassiveLoop(r.passive, r.passive, 1, dict)]

\* the order of pairs of tuples
PairLess(a, b) ==
    \/ TupleLess(a[1], b[1])
    \/ a[1] = b[1] /\ TupleLess(a[2], b[2])

RelationKey(r) ==
    IF r.byz THEN << <<999>>, <<999>> >>
    ELSE << [i \in 1..Len(r.active) |-> ReadingReferenceKey(r.active[i])],
            [i \in 1..Len(r.passive) |-> ReadingReferenceKey(r.passive[i])] >>

\* process_list_relation: every relation is renumbered, then they are sorted
ProcessListRelation(rels, dict) ==
    LET done == [i \in 1..Len(rels) |-> ProcessRelation(rels[i], dict)]
        before(j, i) == \/ PairLess(RelationKey(done[j]), RelationKey(done[i]))
                        \/ RelationKey(done[j]) = RelationKey(done[i]) /\ j < i
        rank(i) == 1 + Cardinality({j \in 1..Len(done) : before(j, i)})
    IN  [k \in 1..Len(done) |-> done[CHOOSE i \in 1..Len(done) : rank(i) = k]]

ProcessNoteRaises(c, dict) ==
    \E i \in 1..Len(c.rels) : ProcessRelationRaises(c.rels[i], dict)

ProcessNote(c, dict) == [c EXCEPT !.rels = ProcessListRelation(c.rels, dict)]

\* the dispatch of process_app on the child's tag and type
ProcessChildRaises(c, dict) ==
    \/ c.tag = "rdg" /\ ProcessRdgRaises(c, dict)
    \/ c.tag = "witDetail" /\ c.type = "ambiguous" /\ ProcessWitDetailRaises(c, dict)
    \/ c.tag = "note" /\ ProcessNoteRaises(c, dict)

ProcessChild(c, dict) ==
    CASE c.tag = "rdg" -> ProcessRdg(c, dict)
      [] c.tag = "witDetail" /\ c.type = "ambiguous" -> ProcessWitDetail(c, dict)
      [] c.tag = "note" -> ProcessNote(c, dict)
      [] OTHER -> c

\* int(target_n) in rdg_key: only a bare number converts
RdgKeyRaises(c) ==
    /\ c.tag = "witDetail"
    /\ c.type = "ambiguous"
    /\ \E i \in 1..Len(c.target) : c.target[i].form # "num"

RECURSIVE RdgKey(_, _)
RdgKey(app, i) ==
    LET c == app[i]
    IN  CASE c.tag = "comment" -> IF i > 1 THEN RdgKey(app, i - 1) ELSE <<-1>>
          [] c.tag = "lem" -> <<0>>
          [] c.tag = "rdg" -> <<1, c.main, 0, 0, c.f, 0>>
          [] c.tag = "witDetail" /\ c.type = "ambiguous" ->
                <<2, 0>> \o [j \in 1..Len(c.target) |-> c.target[j].n]
                         \o (IF c.sub > 0 THEN <<c.sub>> ELSE <<>>)
          [] c.tag = "witDetail" /\ c.type = "overlap" -> <<2, 1>>
          [] c.tag = "witDetail" /\ c.type = "lac" -> <<2, 2>>
          [] c.tag = "witDetail" -> <<2>>
          [] c.tag = "note" -> <<3>>
          [] OTHER -> <<>>

ProcessAppRaises(app, dict) ==
    \/ \E i \in 1..Len(app) : ProcessChildRaises(app[i], dict)
    \/ \E i \in 1..Len(app) : RdgKeyRaises(ProcessChild(app[i], dict))

\* a sort that puts equal keys in reverse order
SortChildrenReversing(app) ==
    LET keys == [i \in 1..Len(app) |-> RdgKey(app, i)]
        before(j, i) == TupleLess(keys[j], keys[i]) \/ (keys[j] = keys[i] /\ j > i)
        rank(i) == 1 + Cardinality({j \in 1..Len(app) : before(j, i)})
    IN  [k \in 1..Len(app) |-> app[CHOOSE i \in 1..Len(app) : rank(i) = k]]

\* "xml[:] = sorted([child for child in xml], key=rdg_key)"
SortChildren(app) == SortedByKeys(app, [i \in 1..Len(app) |-> RdgKey(app, i)])

ProcessApp(app, dict) ==
    SortChildren([i \in 1..Len(app) |-> ProcessChild(app[i], dict)])

\* the n attributes of the rdg children without a type, as <<number, f part>>
SubstantiveReadingNumbers(app) ==
    {<<app[i].main, app[i].f>> : i \in {j \in 1..Len(app) : app[j].tag = "rdg" /\ app[j].type = ""}}

\* a variant that accepts a sequence naming only some of the readings
SequenceWithin(app, seq) ==
    {<<seq[i], 0>> : i \in 1..Len(seq)} \subseteq SubstantiveReadingNumbers(app)

\* "sequence_set != substantive_reading_numbers_set", negated
SequenceMatches(app, seq) ==
    {<<seq[i], 0>> : i \in 1..Len(seq)} = SubstantiveReadingNumbers(app)

\* main: the comparison of the sets, the dictionary, process_app, the output
Main(app, seq) ==
    IF ~SequenceMatches(app, seq)
    THEN [pc |-> "error", app |-> app, written |-> FALSE]
    ELSE IF ProcessAppRaises(app, TranspositionDict(seq))
    THEN [pc |-> "crash", app |-> app, written |-> FALSE]
    ELSE [pc |-> "done", app |-> ProcessApp(app, TranspositionDict(seq)), written |-> TRUE]

\* the variation units of the renumbering runs: a lemma, readings 1..k in
\* order (reading 1 with or without a defective subreading 1-f1), at most one
\* ambiguity between two readings, at most one note of relations; references
\* are numbers, or pointers in a certainty target or a relation list
ReadingCounts == {2, 3}

\* the text of a reading is written as the number the reading has in the
\* input, the text of a subreading as the number of its main reading
TransposeReadings(k, withSub) ==
    <<Lem, [Rdg(1, 0, "") EXCEPT !.text = 1]>>
        \o (IF withSub THEN <<[Rdg(1, 1, "defective") EXCEPT !.text = 1]>> ELSE <<>>)
        \o [i \in 1..(k - 1) |-> [Rdg(i + 1, 0, "") EXCEPT !.text = i + 1]]

\* every unit has an overlap and a lacuna entry after its ambiguities
OtherWitDetails ==
    <<WitDetail("overlap", <<>>, 0, <<>>, <<>>), WitDetail("lac", <<>>, 0, <<>>, <<>>)>>

Ambiguities(k) ==
    {<<>>,
     <<WitDetail("ambiguous", <<2, 1>>, 0, <<Num(2), Num(1)>>, <<Num(2), Num(1)>>)>>,
     <<WitDetail("ambiguous", <<1, 2>>, 0, <<Num(1), Num(2)>>, <<Ref("ptr", 1), Ref("ptr", 2)>>)>>} \cup
    {<<WitDetail("ambiguous", <<p[1], p[2]>>, 0, <<Num(p[1]), Num(p[2])>>, <<Num(p[1]), Num(p[2])>>)>> :
        p \in {q \in (1..k) \X (1..k) : q[1] < q[2]}}

\* strictly increasing lists of one or two reading numbers
SortedRefLists(k) ==
    {<<Num(a)>> : a \in 1..k} \cup
    {<<Num(p[1]), Num(p[2])>> : p \in {q \in (1..k) \X (1..k) : q[1] < q[2]}}

Notes(k) ==
    {<<>>, <<Note(<<Relation(<<Num(1)>>, <<Num(2)>>, FALSE),
                    Relation(<<Num(2)>>, <<Num(1)>>, FALSE)>>)>>,
     <<Note(<<Relation(<<Ref("ptr", 1)>>, <<Num(2)>>, FALSE)>>)>>,
     <<Note(<<Relation(<<Num(1)>>, <<Ref("ptr", 2)>>, FALSE)>>)>>} \cup
    {<<Note(<<Relation(r[1], r[2], FALSE)>>)>> :
        r \in {q \in SortedRefLists(k) \X SortedRefLists(k) : Range(q[1]) \cap Range(q[2]) = {}}}

TransposeUnits ==
    UNION {{TransposeReadings(k, withSub) \o amb \o OtherWitDetails \o note :
                withSub \in BOOLEAN, amb \in Ambiguities(k), note \in Notes(k)} :
           k \in ReadingCounts}

\* the caller's sequences: reading numbers, repeated or missing ones included
TransposeSequences == SeqsUpTo(1..3, MaxSeqLen) \ {<<>>}

IsPermutation(seq) ==
    /\ Range(seq) = 1..Len(seq)
    /\ \A i, j \in 1..Len(seq) : seq[i] = seq[j] => i = j

InversePermutation(seq) == [i \in 1..Len(seq) |-> IndexIn(seq, i)]

\* one run of the tool on the unit
Renumber ==
    /\ tPc = "call"
    /\ \E seq \in TransposeSequences :
          \E out \in {Main(tApp0, seq)} :
              /\ tSeq' = seq
              /\ tApp' = out.app
              /\ tWritten' = out.written
              /\ tPc' = out.pc
    /\ UNCHANGED <<tApp0, tBack, resolverVars, baseVars, expanderVars, mergeVars, sortVars, checkVars>>

\* a second run, on the output of the first, with the inverse permutation
RenumberBack ==
    /\ tPc = "done"
    /\ ~tBack
    /\ IsPermutation(tSeq)
    /\ \E out \in {Main(tApp, InversePermutation(tSeq))} :
           /\ tApp' = out.app
           /\ tWritten' = out.written
           /\ tPc' = out.pc
    /\ tBack' = TRUE
    /\ UNCHANGED <<tApp0, tSeq, resolverVars, baseVars, expanderVars, mergeVars, sortVars, checkVars>>

TransposeInit ==
    /\ tApp0 \in TransposeUnits
    /\ tSeq = <<>>
    /\ tApp = tApp0
    /\ tWritten = FALSE
    /\ tBack = FALSE
    /\ tPc = "call"
    /\ ResolverIdle
    /\ BaseIdle
    /\ ExpanderIdle
    /\ MergeIdle
    /\ SortIdle
    /\ CheckIdle

TransposeNext == Renumber \/ RenumberBack

SpecTranspose == TransposeInit /\ [][TransposeNext]_vars

\* the numbers of the readings without a type
UntypedNumbers(app) ==
    {app[i].main : i \in {j \in 1..Len(app) : app[j].tag = "rdg" /\ app[j].type = ""}}

(***************************************************************************)
(* C8: when the values of the caller's sequence are not exactly the        *)
(* numbers of the unit's substantive readings, the run ends with an error  *)
(* and the unit is unchanged and nothing is written.                       *)
(***************************************************************************)
C8_MismatchAborts ==
    (tPc # "call" /\ ~tBack /\ Range(tSeq) # UntypedNumbers(tApp0)) =>
        /\ tPc = "error"
        /\ tApp = tApp0
        /\ ~tWritten

\* C8: a sequence that leaves out a reading has ended the run with the error
C8_Witness ==
    /\ tPc = "error"
    /\ tSeq # <<>>
    /\ Range(tSeq) \subseteq UntypedNumbers(tApp0)
    /\ Range(tSeq) # UntypedNumbers(tApp0)
    /\ tApp = tApp0
    /\ ~tWritten

(***************************************************************************)
(* C9: for every sequence that passes the precondition, the map from old   *)
(* to new numbers is a bijection from the substantive numbers onto 1..k,   *)
(* k the number of substantive readings, also when the sequence repeats a  *)
(* number.                                                                 *)
(***************************************************************************)
C9_Bijection ==
    (tPc \in {"done", "crash"} /\ ~tBack) =>
        LET dict == TranspositionDict(tSeq)
            k == Cardinality(UntypedNumbers(tApp0))
        IN  /\ DOMAIN dict = UntypedNumbers(tApp0)
            /\ \A a, b \in DOMAIN dict : dict[a] = dict[b] => a = b
            /\ {dict[a] : a \in DOMAIN dict} = 1..k

(***************************************************************************)
(* C10: on a unit whose substantive readings are numbered 1..k, a run with *)
(* a permutation followed by a run with the inverse permutation restores   *)
(* the unit exactly: numbers, targets, relation lists and order.           *)
(***************************************************************************)
C10_RoundTrip ==
    (tBack /\ UntypedNumbers(tApp0) = 1..Cardinality(UntypedNumbers(tApp0))) =>
        /\ tPc = "done"
        /\ tApp = tApp0

(***************************************************************************)
(* The canonical sort of process_app applied to units in any order, with   *)
(* comments, and applied again to its own result.                          *)
(***************************************************************************)
Comment == [NoChild EXCEPT !.tag = "comment"]

SortChildrenSet ==
    {Lem, Rdg(1, 0, ""), Rdg(1, 1, "defective"), Rdg(2, 0, ""), Comment,
     WitDetail("lac", <<>>, 0, <<>>, <<>>), Note(<<>>)}

SortUnits == SeqsUpTo(SortChildrenSet, MaxChildren) \ {<<>>}

SortOnce ==
    /\ sPc = "call"
    /\ sOnce' = SortChildren(sApp)
    /\ sPc' = "once"
    /\ UNCHANGED <<sApp, sTwice, resolverVars, baseVars, expanderVars, mergeVars, transposeVars, checkVars>>

SortTwice ==
    /\ sPc = "once"
    /\ sTwice' = SortChildren(sOnce)
    /\ sPc' = "twice"
    /\ UNCHANGED <<sApp, sOnce, resolverVars, baseVars, expanderVars, mergeVars, transposeVars, checkVars>>

SortInit ==
    /\ sApp \in SortUnits
    /\ sOnce = <<>>
    /\ sTwice = <<>>
    /\ sPc = "call"
    /\ ResolverIdle
    /\ BaseIdle
    /\ ExpanderIdle
    /\ MergeIdle
    /\ TransposeIdle
    /\ CheckIdle

SortNext == SortOnce \/ SortTwice

SpecSort == SortInit /\ [][SortNext]_vars

\* the keys of the children, as the sort computes them, never decrease
InCanonicalOrder(app) ==
    \A i \in 1..(Len(app) - 1) : ~TupleLess(RdgKey(app, i + 1), RdgKey(app, i))

(***************************************************************************)
(* C11: the sort by rdg_key leaves a unit that is in canonical order       *)
(* (comments included) as it is, and sorting twice gives the same order    *)
(* as sorting once.                                                        *)
(***************************************************************************)
C11_SortIdempotent ==
    /\ (sPc \in {"once", "twice"} /\ InCanonicalOrder(sApp)) => sOnce = sApp
    /\ sPc = "twice" => sTwice = sOnce

\* C11: a unit out of order, with a comment after a reading and a comment
\* at its start, has been sorted twice
C11_Witness ==
    /\ sPc = "twice"
    /\ sOnce # sApp
    /\ sApp[1].tag = "comment"
    /\ \E i \in 2..Len(sApp) : sApp[i].tag = "comment" /\ sApp[i - 1].tag = "rdg"
    /\ sTwice = sOnce

(***************************************************************************)
(* The validator's checks on one variation unit (validate_collation.py).   *)
(* A unit is the list of its readings [n, wit], wit the list of the        *)
(* citations of the reading; a report is kept as the set of its lines.     *)
(***************************************************************************)
\* parse_wit of the validator, run to its end
RECURSIVE ValidatorLoop(_, _, _)
ValidatorLoop(base, stack, t) ==
    LET suffix == ValidatorSuffix(base, t)
    IN  IF Len(suffix) = 0 THEN [base |-> base, suffixes |-> stack]
        ELSE ValidatorLoop(StripEnd(base, Len(suffix)), PushSuffix(suffix, stack), t)

ValidatorParseWit(w, t) == ValidatorLoop(w, <<>>, t)

\* "for rdg in app.xpath('tei:rdg'): for wit in rdg.get('wit').split()", in order
RECURSIVE Occurrences(_)
Occurrences(unit) ==
    IF unit = <<>> THEN <<>>
    ELSE [i \in 1..Len(Head(unit).wit) |-> [wit |-> Head(unit).wit[i], n |-> Head(unit).n]]
            \o Occurrences(Tail(unit))

\* rdgs_by_wit[wit]: the reading numbers of the occurrences of wit, in order
RdgsByWit(unit, w) ==
    LET occ == Occurrences(unit)
        at == SelectSeq([i \in 1..Len(occ) |-> i], LAMBDA i : occ[i].wit = w)
    IN  [k \in 1..Len(at) |-> occ[at[k]].n]

\* find_ambiguous_attestations: the lines "Witness %s supports readings %s"
FindAmbiguousAttestations(unit) ==
    {[wit |-> w, rdgs |-> RdgsByWit(unit, w)] :
        w \in {x \in {Occurrences(unit)[i].wit : i \in 1..Len(Occurrences(unit))} :
                    Len(RdgsByWit(unit, x)) > 1}}

\* suffixes_by_base_wit[base]: the suffix lists of the base's occurrences, in order
SuffixesByBaseWit(unit, t, base) ==
    LET occ == Occurrences(unit)
        at == SelectSeq([i \in 1..Len(occ) |-> i],
                        LAMBDA i : ValidatorParseWit(occ[i].wit, t).base = base)
    IN  [k \in 1..Len(at) |-> ValidatorParseWit(occ[at[k]].wit, t).suffixes]

InRole(suffix, t, r) == \E i \in 1..Len(t) : t[i].r = r /\ t[i].s = suffix

\* a variant that pairs a first hand with a corrector but not the reverse
CorrespondsOneWay(suffix, other, t) ==
    \/ InRole(suffix, t, 1) /\ InRole(other, t, 3)
    \/ InRole(suffix, t, 2) /\ InRole(other, t, 4)
    \/ InRole(suffix, t, 4) /\ InRole(other, t, 2)
    \/ InRole(suffix, t, 5) /\ InRole(other, t, 5)

\* "If the suffixes correspond": the five tests of the inner loop
Corresponds(suffix, other, t) ==
    \/ InRole(suffix, t, 1) /\ InRole(other, t, 3)
    \/ InRole(suffix, t, 3) /\ InRole(other, t, 1)
    \/ InRole(suffix, t, 2) /\ InRole(other, t, 4)
    \/ InRole(suffix, t, 4) /\ InRole(other, t, 2)
    \/ InRole(suffix, t, 5) /\ InRole(other, t, 5)

\* suffix_matched after the loop over other_suffix_list
SuffixMatched(list, i, lists, t) ==
    \E j \in 1..Len(lists) :
        /\ i <= Len(lists[j])
        /\ lists[j][i] # list[i]
        /\ Corresponds(list[i], lists[j][i], t)

RoleNames == <<"first hand", "main text", "corrector", "alternate text", "multiple attestation">>

\* the lines printed for one base witness
UnmatchedOfBase(unit, t, base) ==
    LET lists == SuffixesByBaseWit(unit, t, base)
        Subwit(list) == base \o Concat(list)
        Line(kind, w) == [kind |-> kind, wit |-> w, rdg |-> RdgsByWit(unit, w)[1]]
    IN  IF Len(lists) = 1
        THEN IF Len(lists[1]) # 0 THEN {Line("alone", Subwit(lists[1]))} ELSE {}
        ELSE {Line("base", base) : k \in {k \in 1..Len(lists) : Len(lists[k]) = 0}}
             \cup UNION {UNION {{Line(RoleNames[r], Subwit(lists[k])) :
                                    r \in {q \in Roles : InRole(lists[k][i], t, q)}} :
                                 i \in {p \in 1..Len(lists[k]) : ~SuffixMatched(lists[k], p, lists, t)}} :
                         k \in 1..Len(lists)}

\* find_unmatched_witness_pairs on one unit
FindUnmatchedWitnessPairs(unit, t) ==
    UNION {UnmatchedOfBase(unit, t, b) :
            b \in {ValidatorParseWit(Occurrences(unit)[i].wit, t).base :
                        i \in 1..Len(Occurrences(unit))}}

\* the suffix table of the runs: "*" first hand, "T" main text, "C" corrector,
\* "A" alternate text, "1" and "2" multiple attestation; and the same
\* without the corrector
FullTable ==
    <<[s |-> <<"*">>, r |-> 1], [s |-> <<"T">>, r |-> 2], [s |-> <<"C">>, r |-> 3],
      [s |-> <<"A">>, r |-> 4], [s |-> <<"1">>, r |-> 5], [s |-> <<"2">>, r |-> 5]>>

CheckTables == {FullTable, SelectSeq(FullTable, LAMBDA e : e.r # 3)}

CheckCitations ==
    {<<"X">>, <<"X", "*">>, <<"X", "C">>, <<"X", "1">>, <<"X", "2">>,
     <<"X", "*", "1">>, <<"X", "C", "1">>, <<"Y", "*">>}

\* two readings: the first k citations under reading 1, the others under reading 2
CheckUnits ==
    UNION {{<<[n |-> 1, wit |-> SubSeq(cs, 1, k)], [n |-> 2, wit |-> SubSeq(cs, k + 1, Len(cs))]>> :
                k \in 0..Len(cs)} :
           cs \in SeqsUpTo(CheckCitations, MaxUnitCites)}

AmbiguousAttestations ==
    /\ cPc = "ambiguous"
    /\ cAmbiguous' = FindAmbiguousAttestations(cUnit)
    /\ cPc' = "unmatched"
    /\ UNCHANGED <<cTable, cUnit, cUnmatched, resolverVars, baseVars, expanderVars, mergeVars, transposeVars, sortVars>>

UnmatchedWitnessPairs ==
    /\ cPc = "unmatched"
    /\ cUnmatched' = FindUnmatchedWitnessPairs(cUnit, cTable)
    /\ cPc' = "done"
    /\ UNCHANGED <<cTable, cUnit, cAmbiguous, resolverVars, baseVars, expanderVars, mergeVars, transposeVars, sortVars>>

CheckInit ==
    /\ cTable \in CheckTables
    /\ cUnit \in CheckUnits
    /\ cAmbiguous = {}
    /\ cUnmatched = {}
    /\ cPc = "ambiguous"
    /\ ResolverIdle
    /\ BaseIdle
    /\ ExpanderIdle
    /\ MergeIdle
    /\ TransposeIdle
    /\ SortIdle

CheckNext == AmbiguousAttestations \/ UnmatchedWitnessPairs

SpecCheck == CheckInit /\ [][CheckNext]_vars

\* the citation w is named by a line about an unmatched suffix
ReportedUnmatched(w) == \E l \in cUnmatched : l.wit = w /\ l.kind # "base"

RolesCompatible(suffix, other) ==
    \E r1, r2 \in Roles :
        /\ InRole(suffix, cTable, r1)
        /\ InRole(other, cTable, r2)
        /\ <<r1, r2>> \in {<<1, 3>>, <<3, 1>>, <<2, 4>>, <<4, 2>>, <<5, 5>>}

\* occurrence j is another citation of the base of occurrence k and has, at
\* position i, a suffix of a role compatible with that of k's suffix there
CounterpartAt(k, j, i) ==
    LET occ == Occurrences(cUnit)
        pk == ValidatorParseWit(occ[k].wit, cTable)
        pj == ValidatorParseWit(occ[j].wit, cTable)
    IN  /\ j # k
        /\ pj.base = pk.base
        /\ i <= Len(pj.suffixes)
        /\ RolesCompatible(pk.suffixes[i], pj.suffixes[i])

DifferentSuffixAt(k, j, i) ==
    ValidatorParseWit(Occurrences(cUnit)[j].wit, cTable).suffixes[i]
        # ValidatorParseWit(Occurrences(cUnit)[k].wit, cTable).suffixes[i]

(***************************************************************************)
(* C12: a suffixed citation of a base witness is reported as unmatched     *)
(* exactly when one of its suffixes has, at its stack position, no         *)
(* counterpart of compatible role that is a different suffix, among the    *)
(* other citations of the base in the unit.                                *)
(***************************************************************************)
C12_UnmatchedIffNoOtherSuffix ==
    cPc = "done" =>
        \A k \in 1..Len(Occurrences(cUnit)) :
            LET stack == ValidatorParseWit(Occurrences(cUnit)[k].wit, cTable).suffixes
            IN  stack # <<>> =>
                    (ReportedUnmatched(Occurrences(cUnit)[k].wit) <=>
                        \E i \in 1..Len(stack) :
                            ~\E j \in 1..Len(Occurrences(cUnit)) :
                                CounterpartAt(k, j, i) /\ DifferentSuffixAt(k, j, i))

\* C12: "X*" with "XC" in the unit, neither reported
C12_Witness ==
    /\ cPc = "done"
    /\ cTable = FullTable
    /\ \E k, j \in 1..Len(Occurrences(cUnit)) :
          /\ Occurrences(cUnit)[k].wit = <<"X", "*">>
          /\ Occurrences(cUnit)[j].wit = <<"X", "C">>
    /\ ~ReportedUnmatched(<<"X", "*">>)
    /\ ~ReportedUnmatched(<<"X", "C">>)

(***************************************************************************)
(* C12 as stated: a suffixed citation is reported exactly when one of its  *)
(* suffixes has no counterpart of compatible role at its stack position    *)
(* among the other citations of the base in the unit.                      *)
(***************************************************************************)
C12_UnmatchedIffNoCounterpart ==
    cPc = "done" =>
        \A k \in 1..Len(Occurrences(cUnit)) :
            LET stack == ValidatorParseWit(Occurrences(cUnit)[k].wit, cTable).suffixes
            IN  stack # <<>> =>
                    (ReportedUnmatched(Occurrences(cUnit)[k].wit) <=>
                        \E i \in 1..Len(stack) :
                            ~\E j \in 1..Len(Occurrences(cUnit)) : CounterpartAt(k, j, i))

(***************************************************************************)
(* C13: a citation string is reported as an ambiguous attestation exactly  *)
(* when it stands in the witness lists of more than one reading id; a      *)
(* citation written twice in one reading only is not reported.             *)
(***************************************************************************)
C13_AmbiguousIffTwoReadings ==
    cPc # "ambiguous" =>
        \A w \in CheckCitations :
            (\E l \in cAmbiguous : l.wit = w) <=>
                Cardinality({r \in 1..Len(cUnit) : \E i \in 1..Len(cUnit[r].wit) : cUnit[r].wit[i] = w}) > 1

\* the citation is a canonical base witness followed by registered suffixes
Resolvable(c, canon, suffixes) ==
    \E b \in Range(canon) :
        \E stack \in SeqsUpTo(Range(suffixes) \ {<<>>}, Len(c)) : b \o Concat(stack) = c

\* the witness list of reading r as it is handed to the sort
PreSortWits(r) == Replaced(xApp0[r], UncitedWits(xApp0, xCanon, xSuffixes))

HasUnresolved(r) ==
    \E i \in 1..Len(PreSortWits(r)) : ~Resolvable(PreSortWits(r)[i], xCanon, xSuffixes)

(***************************************************************************)
(* C14: when the witness list of a reading holds a citation that does not  *)
(* resolve, the conversion ends, the failure is reported for that reading, *)
(* the list of the reading keeps its order before the sort, and every      *)
(* other reading is converted.                                             *)
(***************************************************************************)
C14_FailureIsLocal ==
    xPc # "call" =>
        \A r \in 1..Len(xApp0) :
            HasUnresolved(r) =>
                /\ xPc = "done"
                /\ xStatus[r] = "error"
                /\ xApp[r].wit = PreSortWits(r)
                /\ \A q \in 1..Len(xApp0) :
                      ~HasUnresolved(q) =>
                          /\ xStatus[q] = "sorted"
                          /\ xApp[q].wit = GetSortedWits(PreSortWits(q), xCanon, xSuffixes)

\* no canonical witness of the document is a prefix of the citation
NoCanonicalPrefix(w) ==
    \A b \in Range(Witnesses(mListWits)) : ~(Len(b) <= Len(w) /\ SubSeq(w, 1, Len(b)) = b)

UnresolvedCites ==
    {DocCites(mUnits, 1)[i].w : i \in {j \in 1..Len(DocCites(mUnits, 1)) :
                                            NoCanonicalPrefix(DocCites(mUnits, 1)[j].w)}}

(***************************************************************************)
(* C15: when a unit holds a citation that no canonical base witness is a   *)
(* prefix of, the merge still returns a merged unit, and the citation is   *)
(* not attributed to a canonical witness.                                  *)
(***************************************************************************)
C15_UnresolvedSurvives ==
    \A r \in 1..2 :
        (r <= mRuns /\ UnresolvedCites # {}) =>
            /\ mOut[r].status = "ok"
            /\ \A w \in UnresolvedCites : w \notin DOMAIN mOut[r].matrix

(***************************************************************************)
(* The two parse_wit loops under fair scheduling: a loop that can take     *)
(* its next iteration takes it.                                            *)
(***************************************************************************)
SpecResolverFair ==
    ResolverInit /\ [][ResolverNext]_vars /\ WF_vars(ExpanderStep) /\ WF_vars(ValidatorStep)

(***************************************************************************)
(* C16: for every citation and every suffix table, the empty suffix and    *)
(* suffixes of one another included, both decompositions end and return.   *)
(***************************************************************************)
C16_Terminates == <>(ePc = "done" /\ vPc = "done")

\* the longest suffix of the table, of any role, that s ends with
LongestMatch(s, t) ==
    LET matching == {x \in Range(AllSuffixes(t)) : EndsWith(s, x)}
    IN  CHOOSE x \in matching : \A y \in matching : Len(y) <= Len(x)

(***************************************************************************)
(* C17: every step of either decomposition removes the longest registered  *)
(* suffix, over all five roles, that the remaining string ends with.       *)
(***************************************************************************)
C17_LongestSuffixFirst ==
    [][/\ eSuf' # eSuf => Head(eSuf') = LongestMatch(eBase, table)
       /\ vSuf' # vSuf => Head(vSuf') = LongestMatch(vBase, table)]_vars

\* the ids of the readings of unit u that cite the siglum w literally
IdsCiting(u, w) ==
    {mUnits[u].rdgs[k].id : k \in {j \in 1..Len(mUnits[u].rdgs) : w \in Range(mUnits[u].rdgs[j].wit)}}

(***************************************************************************)
(* C18: when, within one unit, a subwitness key K of base B is cited under *)
(* one reading and the bare base B under another, the matrix entry of K    *)
(* for that unit is the reading that cites K, whatever the order of the    *)
(* two readings in the document.                                           *)
(***************************************************************************)
C18_OwnCitationWins ==
    \A r \in 1..2 :
        (r <= mRuns /\ mOut[r].status = "ok") =>
            \A u \in 1..Len(mUnits) : \A K \in DOMAIN mOut[r].matrix :
                \A B \in Range(Witnesses(mListWits)) :
                    (/\ K # B
                     /\ MergeGetBaseWit(K, Range(Witnesses(mListWits))) = B
                     /\ Cardinality(IdsCiting(u, K)) = 1
                     /\ IdsCiting(u, B) # {}
                     /\ IdsCiting(u, B) \cap IdsCiting(u, K) = {})
                        => mOut[r].matrix[K][u] \in IdsCiting(u, K)

\* no citation of unit u names the key k or a siglum contained in it
NotAttested(k, u) ==
    \A j \in 1..Len(mUnits[u].rdgs) : \A w \in Range(mUnits[u].rdgs[j].wit) : ~IsSubstring(w, k)

(***************************************************************************)
(* C19: every witness key has an entry at every unit, the sentinel Z       *)
(* where the key is not attested; every merged reading has one segment     *)
(* per unit, in unit order, holding the entry of its witnesses there; the  *)
(* segment of a sentinel entry is the unit's own lacuna entry when it has  *)
(* one and a synthesized placeholder otherwise.                            *)
(***************************************************************************)
C19_EntryAndSegmentPerUnit ==
    \A r \in 1..2 :
        (r <= mRuns /\ mOut[r].status = "ok") =>
            /\ \A k \in DOMAIN mOut[r].matrix :
                  /\ Len(mOut[r].matrix[k]) = Len(mUnits)
                  /\ \A u \in 1..Len(mUnits) :
                        /\ mOut[r].matrix[k][u] \in Range(RdgIds(mUnits[u])) \cup {LAC_SYMBOL}
                        /\ NotAttested(k, u) => mOut[r].matrix[k][u] = LAC_SYMBOL
            /\ \A i \in 1..Len(mOut[r].rdgs) :
                  LET rdg == mOut[r].rdgs[i]
                  IN  /\ Len(rdg.segs) = Len(mUnits)
                      /\ \A u \in 1..Len(mUnits) :
                            /\ rdg.segs[u].unit = u
                            /\ \A j \in 1..Len(rdg.wit) :
                                  rdg.segs[u].rdg = mOut[r].matrix[rdg.wit[j]][u]
                            /\ rdg.segs[u].synthesized <=>
                                  (/\ rdg.segs[u].rdg = LAC_SYMBOL
                                   /\ LAC_SYMBOL \notin Range(RdgIds(mUnits[u])))

\* C19: a merged reading whose segments are a reading of one unit and the
\* placeholder of the other, and one that takes a unit's own lacuna entry
C19_Witness ==
    /\ mRuns >= 1
    /\ mOut[1].status = "ok"
    /\ \E i \in 1..Len(mOut[1].rdgs) : \E u, v \in 1..Len(mUnits) :
          /\ mOut[1].rdgs[i].segs[u].rdg # LAC_SYMBOL
          /\ mOut[1].rdgs[i].segs[v].synthesized
    /\ \E i \in 1..Len(mOut[1].rdgs) : \E u \in 1..Len(mUnits) :
          /\ mOut[1].rdgs[i].segs[u].rdg = LAC_SYMBOL
          /\ ~mOut[1].rdgs[i].segs[u].synthesized

\* the index of the first appearance of a reading id in a unit; a sentinel
\* the unit has no entry for stands after every reading
FirstAppearance(unit, id) ==
    LET ids == RdgIds(unit)
    IN  IF id \in Range(ids)
        THEN CHOOSE i \in 1..Len(ids) : ids[i] = id /\ \A j \in 1..(i - 1) : ids[j] # id
        ELSE Len(ids) + 1

AppearanceKey(rdg) == [u \in 1..Len(rdg.segs) |-> FirstAppearance(mUnits[u], rdg.segs[u].rdg)]

(***************************************************************************)
(* C20: the merged readings are emitted in the lexicographic order of      *)
(* their reading-id sequences, the ids of unit j being compared by the     *)
(* index of their first appearance in unit j, and a sentinel without an    *)
(* entry of its own in the unit standing after every reading of the unit.  *)
(***************************************************************************)
C20_AppearanceOrder ==
    \A r \in 1..2 :
        (r <= mRuns /\ mOut[r].status = "ok") =>
            \A i, j \in 1..Len(mOut[r].rdgs) :
                i < j => TupleLess(AppearanceKey(mOut[r].rdgs[i]), AppearanceKey(mOut[r].rdgs[j]))

\* a is a strict string-prefix of b
IsStrictPrefix(a, b) == Len(a) < Len(b) /\ SubSeq(b, 1, Len(a)) = a

(***************************************************************************)
(* C21: a cited suffixed siglum is left out of the matrix keys only when   *)
(* it is a strict string-prefix of another cited siglum of the same base   *)
(* witness; a siglum that is a substring of another one without being its  *)
(* prefix keeps its own key.                                               *)
(***************************************************************************)
C21_OnlyPrefixesFolded ==
    \A r \in 1..2 :
        (r <= mRuns /\ mOut[r].status = "ok") =>
            \A K \in CitedSigla(mListWits, mUnits) :
                K \notin DOMAIN mOut[r].matrix =>
                    \E L \in CitedSigla(mListWits, mUnits) :
                        /\ MergeGetBaseWit(L, Range(Witnesses(mListWits)))
                              = MergeGetBaseWit(K, Range(Witnesses(mListWits)))
                        /\ IsStrictPrefix(K, L)

\* the caller's sequence names no reading twice: the map is one-to-one
DuplicateFree(seq) == \A i, j \in 1..Len(seq) : seq[i] = seq[j] => i = j

\* the image of a list of numeric references under the map, in ascending order
SortedImage(refs, dict) == SortRefs([i \in 1..Len(refs) |-> Num(dict[refs[i].n])])

(***************************************************************************)
(* C22: with a one-to-one map, every relation of the unit's note comes out *)
(* with its active list and its passive list equal to the image of the     *)
(* original list under the map, in ascending numeric order, whatever the   *)
(* length of the list.                                                     *)
(***************************************************************************)
C22_RelationListsRemapped ==
    (tPc = "done" /\ ~tBack /\ DuplicateFree(tSeq)) =>
        \A i \in 1..Len(tApp0) : tApp0[i].tag = "note" =>
            \E j \in 1..Len(tApp) :
                /\ tApp[j].tag = "note"
                /\ Range(tApp[j].rels) =
                      {Relation(SortedImage(r.active, TranspositionDict(tSeq)),
                                SortedImage(r.passive, TranspositionDict(tSeq)), r.byz) :
                          r \in Range(tApp0[i].rels)}

\* the pointer references of the unit's relations and certainty elements
RelationPointers(app) ==
    UNION {UNION {{ref \in Range(r.active) \cup Range(r.passive) : ref.form = "ptr"} :
                      r \in Range(app[i].rels)} : i \in 1..Len(app)}

CertaintyPointers(app) ==
    UNION {{ref \in Range(app[i].certs) : ref.form = "ptr"} : i \in 1..Len(app)}

(***************************************************************************)
(* C23: a run on a unit with a pointer reference in a relation list or in  *)
(* a certainty target completes, and every such pointer is found in the    *)
(* output as the pointer to the renumbered reading, with its "#".          *)
(***************************************************************************)
C23_PointersRenumbered ==
    (/\ tPc \in {"done", "crash"}
     /\ ~tBack
     /\ DuplicateFree(tSeq)
     /\ RelationPointers(tApp0) \cup CertaintyPointers(tApp0) # {}) =>
        /\ tPc = "done"
        /\ RelationPointers(tApp) =
              {Ref("ptr", TranspositionDict(tSeq)[ref.n]) : ref \in RelationPointers(tApp0)}
        /\ CertaintyPointers(tApp) =
              {Ref("ptr", TranspositionDict(tSeq)[ref.n]) : ref \in CertaintyPointers(tApp0)}

\* the places the sort takes the children from: its k-th child is child
\* SortedPlaces(app)[k] of the list it was given
SortedPlaces(app) ==
    SortedByKeys([i \in 1..Len(app) |-> i], [i \in 1..Len(app) |-> RdgKey(app, i)])

(***************************************************************************)
(* C25: after the sort every comment directly follows the sibling, element *)
(* or comment, that directly preceded it before the sort, and a comment    *)
(* that was the first child is still the first child.                      *)
(***************************************************************************)
C25_CommentsStayAttached ==
    sPc \in {"once", "twice"} =>
        LET from == SortedPlaces(sApp)
        IN  /\ Len(sOnce) = Len(sApp)
            /\ \A k \in 1..Len(sApp) : sOnce[k] = sApp[from[k]]
            /\ \A i \in 1..Len(sApp) : sApp[i].tag = "comment" =>
                  IF i = 1 THEN from[1] = 1
                  ELSE \E k \in 1..(Len(sApp) - 1) : from[k] = i - 1 /\ from[k + 1] = i

\* C25: the sort has moved a reading together with the comment behind it,
\* in a unit that also starts with a comment
C25_Witness ==
    /\ sPc = "once"
    /\ sApp[1].tag = "comment"
    /\ \E i \in 3..Len(sApp) :
          /\ sApp[i].tag = "comment"
          /\ sApp[i - 1].tag = "rdg"
          /\ \E k \in 1..Len(sApp) : SortedPlaces(sApp)[k] = i /\ k < i

\* lemma, readings, ambiguities, overlaps, lacunae, notes
KindRank(c) ==
    CASE c.tag = "lem" -> 0
      [] c.tag = "rdg" -> 1
      [] c.tag = "witDetail" /\ c.type = "ambiguous" -> 2
      [] c.tag = "witDetail" /\ c.type = "overlap" -> 3
      [] c.tag = "witDetail" /\ c.type = "lac" -> 4
      [] c.tag = "note" -> 5
      [] OTHER -> 6

IsSubstantive(c) == c.tag = "rdg" /\ c.type = ""

(***************************************************************************)
(* C24: after a run with an accepted sequence s that names no reading      *)
(* twice, the children stand in the order lemma, readings, ambiguities,    *)
(* overlaps, lacunae, notes; the i-th substantive reading is the reading   *)
(* s[i] of the input and has the number i; every subreading has the new    *)
(* number of its main reading and stands after that reading, before the    *)
(* next substantive one.                                                   *)
(***************************************************************************)
C24_CanonicalOrderOfS ==
    (tPc = "done" /\ ~tBack /\ DuplicateFree(tSeq)) =>
        LET subs == SelectSeq(tApp, IsSubstantive)
        IN  /\ \A i, j \in 1..Len(tApp) : i < j => KindRank(tApp[i]) <= KindRank(tApp[j])
            /\ Len(subs) = Len(tSeq)
            /\ \A i \in 1..Len(subs) : subs[i].main = i /\ subs[i].text = tSeq[i]
            /\ \A i \in 1..Len(tApp) :
                  (tApp[i].tag = "rdg" /\ tApp[i].type # "") =>
                      /\ tApp[i].main = TranspositionDict(tSeq)[tApp[i].text]
                      /\ \E j \in 1..(i - 1) :
                            /\ IsSubstantive(tApp[j])
                            /\ tApp[j].main = tApp[i].main
                            /\ \A l \in (j + 1)..(i - 1) : ~IsSubstantive(tApp[l])

\* C24: a run that moved reading 1 and its subreading behind another reading
C24_Witness ==
    /\ tPc = "done"
    /\ ~tBack
    /\ DuplicateFree(tSeq)
    /\ Len(tSeq) = 3
    /\ tSeq[1] # 1
    /\ \E i \in 2..Len(tApp) :
          /\ tApp[i].tag = "rdg"
          /\ tApp[i].type = "defective"
          /\ tApp[i].main > 1
          /\ tApp[i - 1].text = 1
    /\ \E i \in 1..Len(tApp) : tApp[i].tag = "witDetail" /\ tApp[i].type = "ambiguous"
    /\ \E i \in 1..Len(tApp) : tApp[i].tag = "note"

\* the citations i < j of the list both resolve and stand in descending order
OutOfOrder(wits, i, j) ==
    /\ WitKey(wits[i], xCanon, xSuffixes).outcome = "ok"
    /\ WitKey(wits[j], xCanon, xSuffixes).outcome = "ok"
    /\ TupleLess(WitKey(wits[j], xCanon, xSuffixes).key, WitKey(wits[i], xCanon, xSuffixes).key)

(***************************************************************************)
(* C26: after convert_app the citations that resolve stand, in every       *)
(* reading, in ascending order of the key (index of the base witness,      *)
(* then the index of each suffix of the stack), also in a reading that     *)
(* holds a citation that does not resolve.                                 *)
(***************************************************************************)
C26_ResolvedCitationsSorted ==
    xPc = "done" =>
        \A r \in 1..Len(xApp) :
            \A i, j \in 1..Len(xApp[r].wit) : i < j => ~OutOfOrder(xApp[r].wit, i, j)

\* the suffix stacks under which the unit cites base b
StacksOf(b) ==
    {ValidatorParseWit(Occurrences(cUnit)[i].wit, cTable).suffixes :
        i \in {j \in 1..Len(Occurrences(cUnit)) :
                  ValidatorParseWit(Occurrences(cUnit)[j].wit, cTable).base = b}}

(***************************************************************************)
(* C27: "base witness listed alongside subwitnesses" is reported for a     *)
(* base witness exactly when the unit cites it with an empty suffix stack  *)
(* and also cites a suffixed subwitness of it; a base cited bare under two *)
(* readings, without a suffixed citation, is not reported.                 *)
(***************************************************************************)
C27_BaseAlongsideSubwitness ==
    cPc = "done" =>
        \A i \in 1..Len(Occurrences(cUnit)) :
            LET b == ValidatorParseWit(Occurrences(cUnit)[i].wit, cTable).base
            IN  (\E l \in cUnmatched : l.kind = "base" /\ l.wit = b) <=>
                    (<<>> \in StacksOf(b) /\ StacksOf(b) # {<<>>})

\* the members of list a are found in list b, in the order they have in a
RECURSIVE IsSubsequence(_, _)
IsSubsequence(a, b) ==
    IF a = <<>> THEN TRUE
    ELSE IF b = <<>> THEN FALSE
    ELSE IF Head(a) = Head(b) THEN IsSubsequence(Tail(a), Tail(b))
    ELSE IsSubsequence(a, Tail(b))

(***************************************************************************)
(* C28: convert_app replaces the token "rell" only: afterwards no reading  *)
(* holds the token, a reading that held it holds the uncited canonical     *)
(* witnesses in canonical order, and every citation that was written out   *)
(* before is still in its reading, character for character.                *)
(***************************************************************************)
C28_OnlyRellReplaced ==
    xPc = "done" =>
        \A r \in 1..Len(xApp0) :
            /\ <<RELL>> \notin Range(xApp[r].wit)
            /\ <<RELL>> \in Range(xApp0[r].wit) => IsSubsequence(xUncited, xApp[r].wit)
            /\ \A c \in Range(xApp0[r].wit) : c # <<RELL>> => c \in Range(xApp[r].wit)

(***************************************************************************)
(* C29: with the expander's list being the validator's role lists one      *)
(* after the other, the two parse_wit functions return the same base and   *)
(* the same suffix stack for every citation, also when one registered      *)
(* suffix is a suffix of another.                                          *)
(***************************************************************************)
C29_SameDecomposition ==
    (ePc = "done" /\ vPc = "done") => (eBase = vBase /\ eSuf = vSuf)

(***************************************************************************)
(* check_ambiguous.py, for one ambiguous witDetail: the targets named by   *)
(* its number, by its target attribute and by its certainty children (the  *)
(* target attribute's, when it has no such child), pointers being reduced  *)
(* to the number after "R".                                                *)
(***************************************************************************)
TargetRdgsFromId(c) == c.wn

TargetRdgs(c) == [i \in 1..Len(c.target) |-> c.target[i].n]

CertaintyRdgs(c) ==
    IF Len(c.certs) > 0 THEN [i \in 1..Len(c.certs) |-> c.certs[i].n] ELSE TargetRdgs(c)

\* check_ambiguous prints nothing about the witDetail
AmbiguousAgrees(c) ==
    /\ TargetRdgsFromId(c) = TargetRdgs(c)
    /\ TargetRdgsFromId(c) = CertaintyRdgs(c)

NumericReferences(c) ==
    /\ \A i \in 1..Len(c.target) : c.target[i].form = "num"
    /\ \A i \in 1..Len(c.certs) : c.certs[i].form = "num"

(***************************************************************************)
(* C30: when the number, the target attribute and the certainty children   *)
(* of an ambiguous witDetail name the same targets in the same order       *)
(* (numeric references), they still agree after a run with a one-to-one    *)
(* map, each being the renumbered targets in ascending order.              *)
(***************************************************************************)
C30_AmbiguityStillAgrees ==
    (tPc = "done" /\ ~tBack /\ DuplicateFree(tSeq)) =>
        \A i \in 1..Len(tApp0) :
            (/\ tApp0[i].tag = "witDetail"
             /\ tApp0[i].type = "ambiguous"
             /\ NumericReferences(tApp0[i])
             /\ AmbiguousAgrees(tApp0[i])) =>
                \E j \in 1..Len(tApp) :
                    /\ tApp[j].tag = "witDetail"
                    /\ tApp[j].type = "ambiguous"
                    /\ AmbiguousAgrees(tApp[j])
                    /\ TargetRdgsFromId(tApp[j]) =
                          SortNumbers([n \in 1..Len(tApp0[i].wn) |->
                                          TranspositionDict(tSeq)[tApp0[i].wn[n]]])

\* C30: an ambiguity whose renumbered targets come out in the other order
C30_Witness ==
    /\ tPc = "done"
    /\ ~tBack
    /\ DuplicateFree(tSeq)
    /\ \E i \in 1..Len(tApp0) : \E j \in 1..Len(tApp) :
          /\ tApp0[i].tag = "witDetail"
          /\ tApp0[i].type = "ambiguous"
          /\ tApp0[i].wn = <<1, 2>>
          /\ AmbiguousAgrees(tApp0[i])
          /\ TranspositionDict(tSeq)[1] > TranspositionDict(tSeq)[2]
          /\ tApp[j].tag = "witDetail"
          /\ tApp[j].type = "ambiguous"
          /\ tApp[j].certs = <<Num(TranspositionDict(tSeq)[2]), Num(TranspositionDict(tSeq)[1])>>

=============================================================================
